---- MODULE Spec2Model ----
(***************************************************************************)
(* Customer support agent for product returns (src/customer.py): three     *)
(* tools over an in-memory order table, the two-node agent/tools graph,    *)
(* and the single-shot and interactive drivers.                            *)
(*                                                                         *)
(* Text is modelled as a sequence of one-character strings, so that        *)
(* str.upper(), str.lower(), str.strip() and f-string concatenation are    *)
(* computed character by character.  Money is held in integer cents        *)
(* (79.99 is 7999); the fee literal 100 of calculate_refund is in the      *)
(* currency unit of the prices, i.e. 10000 cents.                          *)
(***************************************************************************)
EXTENDS Integers, Sequences, FiniteSets, TLC

VARIABLES
    purchases,              \* MOCK_PURCHASES, the order table
    env_key,                \* ANTHROPIC_API_KEY in the environment: "absent", "empty", "set"
    entry,                  \* which driver runs: "main", "interactive", "tool"
    dpc,                    \* position of the driver
    queries,                \* the run_agent calls still to make: (query, show_steps)
    show_steps,             \* run_agent's show_steps in the current call
    stdout,                 \* what has been printed, in order
    node,                   \* position of the compiled graph within a run
    messages,               \* AgentState["messages"] of the current run
    output,                 \* the update app.stream() has yielded and the driver has not consumed
    final_state,            \* run_agent's final_state
    step_count,             \* run_agent's step_count
    conversation_messages,  \* interactive_mode's conversation_messages
    run,                    \* number of loop runs started so far
    model_calls,            \* number of model invocations so far
    next_id,                \* next identifier the model service hands out
    calls_requested,        \* number of tool calls the model has requested so far
    inputs_read,            \* number of lines read from stdin
    stdin_line,             \* the line input() returned last
    tool_in,              \* direct tool invocation: the tool and its arguments
    tool_out             \* direct tool invocation: what it returned or raised

vars == << purchases, env_key, entry, dpc, queries, show_steps, stdout, node, messages, output,
           final_state, step_count, conversation_messages, run, model_calls,
           next_id, calls_requested, inputs_read, stdin_line, tool_in, tool_out >>

\* The graph's state, the drivers' state, and what no step of a session changes.
graph_vars == << node, messages, output, model_calls, next_id, calls_requested >>
driver_vars == << dpc, queries, show_steps, stdout, final_state, step_count,
                  conversation_messages, run, inputs_read, stdin_line >>
\* The drivers' state but for the position.
driver_data == << queries, show_steps, stdout, final_state, step_count,
                  conversation_messages, run, inputs_read, stdin_line >>
\* What no step of the program assigns.
fixed_vars == << purchases, env_key, entry, tool_in, tool_out >>

----------------------------------------------------------------------------
(* Bounds of the model. *)

\* Upper-cased positions tried in a case variant of an input string.
MaxUpper == 2
\* Model invocations in one session.
MaxModelCalls == 3
\* Tool calls the model requests in one session.
MaxToolCalls == 2
\* Lines read from stdin in one interactive session.
MaxInputs == 2

----------------------------------------------------------------------------
(* Text. *)

Lowers == << "a","b","c","d","e","f","g","h","i","j","k","l","m",
             "n","o","p","q","r","s","t","u","v","w","x","y","z" >>
Uppers == << "A","B","C","D","E","F","G","H","I","J","K","L","M",
             "N","O","P","Q","R","S","T","U","V","W","X","Y","Z" >>

upper_char(c) ==
    IF \E i \in DOMAIN Lowers : Lowers[i] = c
    THEN Uppers[CHOOSE i \in DOMAIN Lowers : Lowers[i] = c]
    ELSE c

lower_char(c) ==
    IF \E i \in DOMAIN Uppers : Uppers[i] = c
    THEN Lowers[CHOOSE i \in DOMAIN Uppers : Uppers[i] = c]
    ELSE c

\* str.upper()
upper(s) == [i \in 1..Len(s) |-> upper_char(s[i])]

\* str.lower()
lower(s) == [i \in 1..Len(s) |-> lower_char(s[i])]

\* Only the leading blanks removed, as str.lstrip() does
strip_leading_only(s) ==
    LET inked == {i \in 1..Len(s) : s[i] # " "}
    IN  IF inked = {} THEN << >>
        ELSE SubSeq(s, CHOOSE i \in inked : \A j \in inked : i <= j, Len(s))

\* str.strip(): leading and trailing blanks removed
strip(s) ==
    LET inked == {i \in 1..Len(s) : s[i] # " "}
    IN  IF inked = {} THEN << >>
        ELSE LET first == CHOOSE i \in inked : \A j \in inked : i <= j
                 last  == CHOOSE i \in inked : \A j \in inked : j <= i
             IN  SubSeq(s, first, last)

\* `part in text` for strings
Contains(text, part) ==
    \E i \in 0..(Len(text) - Len(part)) : SubSeq(text, i + 1, i + Len(part)) = part

\* A Python value handed to a tool: a str, or an int (a wrongly typed argument).
PyStr(s) == [t |-> "str", v |-> s]
PyInt(s) == [t |-> "int", v |-> s]

None == [t |-> "None", v |-> << >>]

----------------------------------------------------------------------------
(* The order table. *)

ORD001 == << "O","R","D","-","0","0","1" >>
ORD002 == << "O","R","D","-","0","0","2" >>
ORD003 == << "O","R","D","-","0","0","3" >>
ORD004 == << "O","R","D","-","0","0","4" >>
ORD005 == << "O","R","D","-","0","0","5" >>

OrderIds == {ORD001, ORD002, ORD003, ORD004, ORD005}

\* purchase_date is kept as the number of days before startup.
MOCK_PURCHASES ==
    [k \in OrderIds |->
        CASE k = ORD001 -> [product_name |-> "Wireless Bluetooth Headphones",
                            purchase_date |-> 10, order_id |-> ORD001,
                            price |-> 7999, customer_name |-> "John Smith"]
          [] k = ORD002 -> [product_name |-> "Smart Fitness Watch",
                            purchase_date |-> 35, order_id |-> ORD002,
                            price |-> 19999, customer_name |-> "Sarah Johnson"]
          [] k = ORD003 -> [product_name |-> "USB-C Charging Cable",
                            purchase_date |-> 5, order_id |-> ORD003,
                            price |-> 1599, customer_name |-> "Mike Davis"]
          [] k = ORD004 -> [product_name |-> "Portable Power Bank",
                            purchase_date |-> 45, order_id |-> ORD004,
                            price |-> 4999, customer_name |-> "Emily Chen"]
          [] k = ORD005 -> [product_name |-> "Laptop Case",
                            purchase_date |-> 20, order_id |-> ORD005,
                            price |-> 2499, customer_name |-> "Alex Rodriguez"]]

\* dict.get(key): the record, or None
Get(table, key) == IF key \in DOMAIN table THEN table[key] ELSE None

----------------------------------------------------------------------------
(* The tools.  A tool body either returns a value or raises.               *)

Returned(v) == [raised |-> FALSE, value |-> v]
Raised(exc, detail) == [raised |-> TRUE, value |-> [exc |-> exc, detail |-> detail]]

electronics == << "e","l","e","c","t","r","o","n","i","c","s" >>
accessories == << "a","c","c","e","s","s","o","r","i","e","s" >>
default     == << "d","e","f","a","u","l","t" >>

policies ==
    [k \in {electronics, accessories, default} |->
        CASE k = electronics -> [return_window_days |-> 15,
                                 condition |-> "unopened or defective",
                                 refund_type |-> "full refund or exchange"]
          [] k = accessories -> [return_window_days |-> 45,
                                 condition |-> "unused with original packaging",
                                 refund_type |-> "full refund or store credit"]
          [] k = default     -> [return_window_days |-> 30,
                                 condition |-> "unused and in original condition",
                                 refund_type |-> "full refund"]]

\* product_return_policy looking the category up as given, without lower()
product_return_policy_as_given(product_category) ==
    IF product_category.t # "str"
    THEN Raised("AttributeError", "lower")
    ELSE LET key    == product_category.v
             policy == IF key \in DOMAIN policies THEN policies[key] ELSE policies[default]
         IN  Returned([return_window_days |-> policy.return_window_days,
                       condition_required |-> policy.condition,
                       refund_type        |-> policy.refund_type,
                       restocking_fee     |-> "No restocking fee for defective items"])

product_return_policy(product_category) ==
    IF product_category.t # "str"
    THEN Raised("AttributeError", "lower")
    ELSE LET key    == lower(product_category.v)
             policy == IF key \in DOMAIN policies THEN policies[key] ELSE policies[default]
         IN  Returned([return_window_days |-> policy.return_window_days,
                       condition_required |-> policy.condition,
                       refund_type        |-> policy.refund_type,
                       restocking_fee     |-> "No restocking fee for defective items"])

OrderPrefix == << "O","r","d","e","r"," " >>
NotFoundSuffix == << " ","n","o","t"," ","f","o","u","n","d",".",
                     " ","P","l","e","a","s","e"," ","c","h","e","c","k",
                     " ","t","h","e"," ","o","r","d","e","r"," ","I","D","." >>

\* lookup_order reporting the normalised identifier in its not-found message
lookup_order_upper_message(order_id) ==
    IF order_id.t # "str"
    THEN Raised("AttributeError", "upper")
    ELSE LET order == Get(purchases, upper(order_id.v))
         IN  IF order # None
             THEN Returned([success |-> TRUE, order |-> order])
             ELSE Returned([success |-> FALSE,
                            message |-> OrderPrefix \o upper(order_id.v) \o NotFoundSuffix])

lookup_order(order_id) ==
    IF order_id.t # "str"
    THEN Raised("AttributeError", "upper")
    ELSE LET order == Get(purchases, upper(order_id.v))
         IN  IF order # None
             THEN Returned([success |-> TRUE, order |-> order])
             ELSE Returned([success |-> FALSE,
                            message |-> OrderPrefix \o order_id.v \o NotFoundSuffix])

defective  == << "d","e","f","e","c","t","i","v","e" >>
wrong_item == << "w","r","o","n","g","_","i","t","e","m" >>
damaged    == << "d","a","m","a","g","e","d" >>
general    == << "g","e","n","e","r","a","l" >>

\* The literal fee of calculate_refund, in the currency unit of the prices.
FixedFee == 100

calculate_refund(order_id, return_reason) ==
    IF order_id.t # "str"
    THEN Raised("AttributeError", "upper")
    ELSE LET order == Get(purchases, upper(order_id.v))
         IN  IF order = None
             THEN Returned([success |-> FALSE, message |-> "Order not found"])
             ELSE IF return_reason.t # "str"
             THEN Raised("AttributeError", "lower")
             ELSE LET price == order.price
                      restocking_fee ==
                          IF lower(return_reason.v) \notin {defective, wrong_item, damaged}
                          THEN 0
                          ELSE FixedFee * 100
                      refund_amount == price - restocking_fee
                  IN  Returned([success |-> TRUE,
                                original_price |-> price,
                                restocking_fee |-> restocking_fee,
                                refund_amount  |-> refund_amount,
                                refund_method  |-> "Original payment method",
                                processing_time |-> "5-7 business days"])

\* The registered tools.
TOOLS == {"lookup_order", "product_return_policy", "calculate_refund"}

\* Parameters of a tool's function, and those without a default.
Params(tool_name) ==
    CASE tool_name = "lookup_order"          -> {"order_id"}
      [] tool_name = "product_return_policy" -> {"product_category"}
      [] tool_name = "calculate_refund"      -> {"order_id", "return_reason"}

Required(tool_name) ==
    CASE tool_name = "lookup_order"          -> {"order_id"}
      [] tool_name = "product_return_policy" -> {}
      [] tool_name = "calculate_refund"      -> {"order_id"}

\* The value bound to a parameter: the argument given, or the default.
Arg(args, name, dflt) == IF name \in DOMAIN args THEN args[name] ELSE PyStr(dflt)

\* tool_func.func called with tool_args as keyword arguments: Python binds the keyword arguments (an
\* unexpected or a missing one raises TypeError), then runs the body.
Invoke(tool_name, tool_args) ==
    IF (DOMAIN tool_args) \ Params(tool_name) # {}
    THEN Raised("TypeError", "unexpected keyword argument")
    ELSE IF Required(tool_name) \ (DOMAIN tool_args) # {}
    THEN Raised("TypeError", "missing required argument")
    ELSE CASE tool_name = "lookup_order" ->
                  lookup_order(tool_args["order_id"])
           [] tool_name = "product_return_policy" ->
                  product_return_policy(Arg(tool_args, "product_category", electronics))
           [] tool_name = "calculate_refund" ->
                  calculate_refund(tool_args["order_id"],
                                   Arg(tool_args, "return_reason", general))

\* calculate_refund deducting the fee from the stored record in place
store_after_price_overwritten(tool_name, tool_args, table) ==
    IF /\ tool_name = "calculate_refund"
       /\ ~Invoke(tool_name, tool_args).raised
       /\ Invoke(tool_name, tool_args).value.success
    THEN [table EXCEPT ![upper(tool_args["order_id"].v)].price =
                           Invoke(tool_name, tool_args).value.refund_amount]
    ELSE table

\* The order table after a tool has run: the tool bodies only read it
\* (MOCK_PURCHASES.get and order["price"]), whatever they return or raise.
store_after(tool_name, tool_args, table) == table

\* The order table after the calls of a batch that execute_tools reaches:
\* all of them, or those before the first one naming an unregistered tool.
RECURSIVE StoreAfterCalls(_, _)
StoreAfterCalls(calls, table) ==
    IF calls = << >> \/ Head(calls).name \notin TOOLS
    THEN table
    ELSE StoreAfterCalls(Tail(calls),
                         store_after(Head(calls).name, Head(calls).args, table))

----------------------------------------------------------------------------
(* Inputs of the tools. *)

\* s with the positions in U upper-cased and the others lower-cased
Recase(s, U) ==
    [i \in 1..Len(s) |-> IF i \in U THEN upper_char(lower_char(s[i])) ELSE lower_char(s[i])]

\* s in lower case with at most MaxUpper positions upper-cased, and s in upper case
CaseVariants(s) ==
    {Recase(s, U) : U \in {W \in SUBSET (1..Len(s)) : Cardinality(W) <= MaxUpper}}
        \cup {upper(s)}

UnknownOrderIds ==
    { << "O","R","D","-","9","9","9" >>,
      << "O","R","D","-","0","0" >>,
      << "O","R","D","-","0","0","1","1" >>,
      << "o","r","d","0","0","1" >>,
      << " ","O","R","D","-","0","0","1" >>,
      << >> }

OrderIdInputs == UNION {CaseVariants(k) : k \in OrderIds} \cup UnknownOrderIds

OtherReasons ==
    { << "u","n","w","a","n","t","e","d" >>,
      << "d","e","f","e","c","t" >>,
      << "d","a","m","a","g","e","d"," " >>,
      << "w","r","o","n","g"," ","i","t","e","m" >>,
      << >> }

ReasonInputs ==
    UNION {CaseVariants(r) : r \in {defective, wrong_item, damaged, general}}
        \cup OtherReasons

OtherCategories ==
    { << "b","o","o","k","s" >>,
      << "e","l","e","c","t","r","o","n","i","c" >>,
      << "a","c","c","e","s","s","o","r","i","e","s"," " >>,
      << >> }

CategoryInputs ==
    UNION {CaseVariants(c) : c \in {electronics, accessories, default}}
        \cup OtherCategories

\* {} for an argument left out, else the one-entry mapping name -> value
Kw(name, values) == {<< >>} \cup {name :> v : v \in values}

NoCall == [name |-> "none", args |-> << >>]

----------------------------------------------------------------------------------------------------------------------------------------------
(* Direct invocation of a tool with keyword arguments: the call is drawn   *)
(* at the start and one step applies the tool to it.                       *)

LookupOrderCalls ==
    {[name |-> "lookup_order", args |-> a] :
        a \in Kw("order_id", {PyStr(x) : x \in OrderIdInputs} \cup {PyInt(<< "1" >>)})}

ProductReturnPolicyCalls ==
    {[name |-> "product_return_policy", args |-> a] :
        a \in Kw("product_category",
                 {PyStr(x) : x \in CategoryInputs} \cup {PyInt(<< "1" >>)})}

CalculateRefundCalls ==
    {[name |-> "calculate_refund", args |-> a @@ b] :
        a \in Kw("order_id", {PyStr(x) : x \in OrderIdInputs} \cup {PyInt(<< "1" >>)}),
        b \in Kw("return_reason", {PyStr(x) : x \in ReasonInputs} \cup {PyInt(<< "1" >>)})}

CallTool(tool_name) ==
    /\ dpc = "tool"
    /\ tool_in.name = tool_name
    /\ tool_out' = Invoke(tool_name, tool_in.args)
    /\ purchases' = store_after(tool_name, tool_in.args, purchases)
    /\ dpc' = "returned"
    /\ UNCHANGED << env_key, entry, tool_in >>
    /\ UNCHANGED graph_vars
    /\ UNCHANGED driver_data

CallLookupOrder == CallTool("lookup_order")

CallProductReturnPolicy == CallTool("product_return_policy")

CallCalculateRefund == CallTool("calculate_refund")

InitCommon ==
    /\ purchases = MOCK_PURCHASES
    /\ show_steps = TRUE
    /\ stdout = << >>
    /\ node = "idle"
    /\ messages = << >>
    /\ output = None
    /\ final_state = None
    /\ step_count = 0
    /\ conversation_messages = << >>
    /\ run = 0
    /\ model_calls = 0
    /\ next_id = 1
    /\ calls_requested = 0
    /\ inputs_read = 0
    /\ stdin_line = << >>
    /\ tool_out = None

InitTools ==
    /\ InitCommon
    /\ env_key = "set"
    /\ entry = "tool"
    /\ dpc = "tool"
    /\ queries = << >>
    /\ tool_in \in LookupOrderCalls \cup ProductReturnPolicyCalls \cup CalculateRefundCalls

NextTools ==
    \/ CallLookupOrder
    \/ CallProductReturnPolicy
    \/ CallCalculateRefund

SpecTools == InitTools /\ [][NextTools]_vars

----------------------------------------------------------------------------
(* Messages.  Every message is a record of the same shape; a field a       *)
(* message class does not have is empty (tool_calls << >>, ids 0).         *)

HumanMessage(content) ==
    [type |-> "human", content |-> content, tool_calls |-> << >>,
     tool_call_id |-> 0, name |-> "", id |-> 0]

\* The model's reply: its text, the tool calls it requests, and the message
\* id the model service gives it.
AIMessage(content, tool_calls, id) ==
    [type |-> "ai", content |-> content, tool_calls |-> tool_calls,
     tool_call_id |-> 0, name |-> "", id |-> id]

ToolMessage(content, tool_call_id, name) ==
    [type |-> "tool", content |-> content, tool_calls |-> << >>,
     tool_call_id |-> tool_call_id, name |-> name, id |-> 0]

Last(s) == s[Len(s)]

\* str(x): the text of a value, kept as the value under a tag
str(x) == << "str", x >>

\* A state without the reducer: the update replaces the sequence
add_messages_overwrite(left, right) == right

add_messages(left, right) == left \o right

\* hasattr(msg, "tool_calls") and msg.tool_calls
HasToolCalls(msg) == msg.type = "ai" /\ msg.tool_calls # << >>

\* should_continue testing only that the last message has a tool_calls
\* attribute, not that it holds a call
should_continue_hasattr_only(state_messages) ==
    LET last_message == Last(state_messages)
    IN  IF last_message.type = "ai" THEN "tools" ELSE "end"

should_continue(state_messages) ==
    LET last_message == Last(state_messages)
    IN  IF HasToolCalls(last_message) THEN "tools" ELSE "end"

\* The conditional edges of "agent" and the edge "tools" -> "agent".
EdgeFromAgent(route) == IF route = "tools" THEN "tools" ELSE "END"
EdgeFromTools == "agent"

\* What one tool call of the batch appends: the tool's result, or the text
\* of the exception tool_func.func raised.
ToolResultMessage(tool_call) ==
    LET tool_name == tool_call.name
        tool_id   == tool_call.id
        result    == Invoke(tool_name, tool_call.args)
    IN  IF ~result.raised
        THEN ToolMessage(str(result.value), tool_id, tool_name)
        ELSE ToolMessage(<< "Error executing ", tool_name, ": ", result.value >>,
                         tool_id, tool_name)

\* execute_tools reading the tool calls of the first tool request of the
\* history instead of those of the last message
execute_tools_first_request(state_messages) ==
    LET requests     == {i \in 1..Len(state_messages) : HasToolCalls(state_messages[i])}
        last_message == state_messages[CHOOSE i \in requests : \A j \in requests : i <= j]
        tool_calls   == last_message.tool_calls
        unknown      == {i \in 1..Len(tool_calls) : tool_calls[i].name \notin TOOLS}
    IN  IF unknown # {}
        THEN Raised("KeyError",
                    tool_calls[CHOOSE i \in unknown : \A j \in unknown : i <= j].name)
        ELSE Returned([i \in 1..Len(tool_calls) |-> ToolResultMessage(tool_calls[i])])

\* execute_tools: TOOLS[tool_name] is evaluated before the try block, so the
\* first call that names an unregistered tool raises KeyError out of the
\* function and the results collected so far are lost.
execute_tools(state_messages) ==
    LET last_message == Last(state_messages)
        tool_calls   == last_message.tool_calls
        unknown      == {i \in 1..Len(tool_calls) : tool_calls[i].name \notin TOOLS}
    IN  IF unknown # {}
        THEN Raised("KeyError",
                    tool_calls[CHOOSE i \in unknown : \A j \in unknown : i <= j].name)
        ELSE Returned([i \in 1..Len(tool_calls) |-> ToolResultMessage(tool_calls[i])])

----------------------------------------------------------------------------
(* The model service: what a model invocation may return. *)

\* The calls the model is let to request.
ToolCallChoices ==
    { [name |-> "lookup_order",
       args |-> ("order_id" :> PyStr(<< "o","r","d","-","0","0","3" >>))],
      [name |-> "calculate_refund", args |-> << >>],
      [name |-> "product_return_policy",
       args |-> ("product_category" :> PyStr(<< "A","c","c","e","s","s","o","r","i","e","s" >>))],
      [name |-> "cancel_order", args |-> ("order_id" :> PyStr(ORD004))] }

AnswerText == << "o", "k" >>

\* The texts the model is let to answer with.
AnswerTexts == {AnswerText, << "n", "o" >>}

\* Non-empty sequences over S of length at most n
SeqsUpTo(S, n) == UNION {[1..k -> S] : k \in 1..n}

\* The model service gives the reply the id first and its calls the next ids.
WithIds(calls, first) ==
    [i \in 1..Len(calls) |->
        [name |-> calls[i].name, args |-> calls[i].args, id |-> first + i]]

----------------------------------------------------------------------------
(* The graph compiled by create_agent_graph, stepped by app.stream(). *)

\* An exception leaves the node, app.stream() and the driver: nothing in
\* the program catches it.
Propagate ==
    /\ node' = "raised"
    /\ dpc' = "crashed"

\* call_model fails: ChatAnthropic has no usable key, or the service errs.
CallModelRaises ==
    /\ node = "agent"
    /\ output = None
    /\ model_calls < MaxModelCalls
    /\ model_calls' = model_calls + 1
    /\ Propagate
    /\ UNCHANGED << messages, output, next_id, calls_requested >>
    /\ UNCHANGED driver_data
    /\ UNCHANGED fixed_vars

\* call_model returns {"messages": [response]}; response is appended by the
\* reducer of AgentState.
CallModelReturns(response, ids_used, calls) ==
    /\ node = "agent"
    /\ output = None
    /\ model_calls < MaxModelCalls
    /\ env_key = "set"
    /\ model_calls' = model_calls + 1
    /\ messages' = add_messages(messages, << response >>)
    /\ next_id' = next_id + ids_used
    /\ calls_requested' = calls_requested + calls
    /\ node' = "should_continue"
    /\ UNCHANGED output
    /\ UNCHANGED driver_vars
    /\ UNCHANGED fixed_vars

\* The model gives a plain answer.
CallModelAnswers ==
    \E text \in AnswerTexts :
        CallModelReturns(AIMessage(text, << >>, next_id), 1, 0)

\* The model requests one or more tool calls.
CallModelRequestsTools ==
    \E calls \in SeqsUpTo(ToolCallChoices, MaxToolCalls - calls_requested) :
        CallModelReturns(AIMessage(<< >>, WithIds(calls, next_id), next_id),
                         1 + Len(calls), Len(calls))

\* The branch after "agent": should_continue picks the edge, and the step's
\* update {"agent": {"messages": [response]}} is yielded to the driver.
ShouldContinue ==
    /\ node = "should_continue"
    /\ node' = EdgeFromAgent(should_continue(messages))
    /\ output' = [key |-> "agent", messages |-> << Last(messages) >>]
    /\ UNCHANGED << messages, model_calls, next_id, calls_requested >>
    /\ UNCHANGED driver_vars
    /\ UNCHANGED fixed_vars

\* The "tools" node returns its messages, which the reducer appends.
ExecuteToolsReturns ==
    /\ node = "tools"
    /\ output = None
    /\ ~execute_tools(messages).raised
    /\ LET tool_messages == execute_tools(messages).value
       IN  /\ messages' = add_messages(messages, tool_messages)
           /\ output' = [key |-> "tools", messages |-> tool_messages]
    /\ node' = EdgeFromTools
    /\ purchases' = StoreAfterCalls(Last(messages).tool_calls, purchases)
    /\ UNCHANGED << model_calls, next_id, calls_requested >>
    /\ UNCHANGED driver_vars
    /\ UNCHANGED << env_key, entry, tool_in, tool_out >>

\* The "tools" node raises KeyError.
ExecuteToolsRaises ==
    /\ node = "tools"
    /\ output = None
    /\ execute_tools(messages).raised
    /\ Propagate
    /\ purchases' = StoreAfterCalls(Last(messages).tool_calls, purchases)
    /\ UNCHANGED << messages, output, model_calls, next_id, calls_requested >>
    /\ UNCHANGED driver_data
    /\ UNCHANGED << env_key, entry, tool_in, tool_out >>

----------------------------------------------------------------------------
(* The drivers: the __main__ block, run_agent and interactive_mode. *)

\* One print() call: what is printed and the value formatted into it.
Line(what, value) == << what, value >>

\* The example queries of the __main__ block, each one piece of text.
ExampleQueries ==
    << [query |-> << "I want to return my order ORD-001. Can I still return it?" >>,
        show_steps |-> TRUE],
       [query |-> << "Can I return order ORD-004? I'm not happy with it." >>,
        show_steps |-> TRUE],
       [query |-> << "What is your return policy for electronics?" >>,
        show_steps |-> TRUE] >>

\* A call of run_agent from outside the __main__ block, with show_steps off.
QuietQuery ==
    << [query |-> << "Can I return ORD-003?" >>, show_steps |-> FALSE] >>

\* The __main__ block up to the first run_agent call.  os.getenv returns
\* None for an absent key, and os.environ[...] = None raises TypeError.
Startup ==
    /\ dpc = "startup"
    /\ IF env_key = "absent"
       THEN /\ dpc' = "crashed"
            /\ UNCHANGED stdout
       ELSE /\ dpc' = "main"
            /\ stdout' = IF env_key = "empty"
                         THEN stdout \o << Line("key not found", << >>), Line("", << >>) >>
                         ELSE stdout
    /\ UNCHANGED << queries, show_steps, final_state, step_count,
                    conversation_messages, run, inputs_read, stdin_line >>
    /\ UNCHANGED graph_vars
    /\ UNCHANGED fixed_vars

\* run_agent up to the first step of app.stream(initial_state).
RunAgentStart ==
    /\ dpc = "main"
    /\ queries # << >>
    /\ LET query == Head(queries).query
       IN  /\ messages' = add_messages(<< >>, << HumanMessage(query) >>)
           /\ stdout' = stdout \o << Line("USER QUERY", query) >>
    /\ show_steps' = Head(queries).show_steps
    /\ queries' = Tail(queries)
    /\ final_state' = None
    /\ step_count' = 0
    /\ run' = run + 1
    /\ node' = "agent"
    /\ dpc' = "streaming"
    /\ UNCHANGED << output, model_calls, next_id, calls_requested,
                    conversation_messages, inputs_read, stdin_line >>
    /\ UNCHANGED fixed_vars

\* What run_agent prints for one message of a step when show_steps is on.
StepLines(msg) ==
    IF HasToolCalls(msg)
    THEN << Line("Tool Calls", msg.tool_calls) >>
    ELSE IF msg.type = "tool"
    THEN << Line("TOOL_RESULT", << msg.name, msg.content >>) >>
    ELSE << Line("AGENT_RESPONSE", msg.content) >>

RECURSIVE StepsLines(_)
StepsLines(msgs) ==
    IF msgs = << >> THEN << >> ELSE StepLines(Head(msgs)) \o StepsLines(Tail(msgs))

\* The body of run_agent's loop over app.stream(), for one yielded update.
RunAgentStep ==
    /\ entry \in {"main", "run_agent"}
    /\ dpc = "streaming"
    /\ output # None
    /\ step_count' = step_count + 1
    /\ final_state' = [messages |-> output.messages]
    /\ stdout' = IF show_steps
                 THEN stdout \o << Line("Step", << step_count + 1, output.key >>) >>
                             \o StepsLines(output.messages)
                 ELSE stdout
    /\ output' = None
    /\ UNCHANGED << dpc, queries, show_steps, conversation_messages, run, inputs_read, stdin_line >>
    /\ UNCHANGED << node, messages, model_calls, next_id, calls_requested >>
    /\ UNCHANGED fixed_vars

\* The first message of the sequence reported instead of the last
ReportedTurn_first(msgs) == msgs[1]

\* The message whose content is printed as the reply: messages[-1]
ReportedTurn(msgs) == Last(msgs)

\* run_agent after the stream is exhausted.
RunAgentFinish ==
    /\ entry \in {"main", "run_agent"}
    /\ dpc = "streaming"
    /\ node = "END"
    /\ output = None
    /\ stdout' = IF ~show_steps /\ final_state # None /\ final_state.messages # << >>
                 THEN stdout \o << Line("final", ReportedTurn(final_state.messages).content),
                                   Line("=", << >>) >>
                 ELSE stdout \o << Line("=", << >>) >>
    /\ dpc' = "main"
    /\ UNCHANGED << queries, show_steps, final_state, step_count,
                    conversation_messages, run, inputs_read, stdin_line >>
    /\ UNCHANGED graph_vars
    /\ UNCHANGED fixed_vars

\* The __main__ block after its last run_agent call.
MainExit ==
    /\ dpc = "main"
    /\ queries = << >>
    /\ dpc' = "exited"
    /\ UNCHANGED driver_data
    /\ UNCHANGED graph_vars
    /\ UNCHANGED fixed_vars

\* interactive_mode up to its loop.
InteractiveStart ==
    /\ dpc = "interactive"
    /\ stdout' = stdout \o << Line("Customer Support Agent - Product Returns", << >>) >>
    /\ conversation_messages' = << >>
    /\ dpc' = "input"
    /\ UNCHANGED << queries, show_steps, final_state, step_count, run, inputs_read, stdin_line >>
    /\ UNCHANGED graph_vars
    /\ UNCHANGED fixed_vars

\* The lines typed at the prompt.
UserInputs ==
    { << "h","i" >>,
      << " ","q","u","i","t","e" >>,
      << " "," " >>,
      << >>,
      << "q" >>,
      << "Q","u","i","t" >>,
      << " ","E","X","I","T"," " >> }

QuitWords == { << "q","u","i","t" >>, << "e","x","i","t" >>, << "q" >> }

\* One turn of interactive_mode's loop up to the first step of app.stream(state).
ReadInput ==
    /\ dpc = "input"
    /\ inputs_read < MaxInputs
    /\ inputs_read' = inputs_read + 1
    /\ \E line \in UserInputs :
        /\ stdin_line' = line
        /\ LET user_input == strip(line)
           IN  IF lower(user_input) \in QuitWords
               THEN /\ stdout' = stdout \o << Line("Goodbye", << >>) >>
                    /\ dpc' = "exited"
                    /\ UNCHANGED << conversation_messages, run >>
                    /\ UNCHANGED graph_vars
               ELSE IF user_input = << >>
               THEN /\ UNCHANGED << stdout, dpc, conversation_messages, run >>
                    /\ UNCHANGED graph_vars
               ELSE /\ conversation_messages' =
                           Append(conversation_messages, HumanMessage(user_input))
                    /\ messages' = add_messages(<< >>, conversation_messages')
                    /\ node' = "agent"
                    /\ run' = run + 1
                    /\ dpc' = "streaming"
                    /\ UNCHANGED << stdout, output, model_calls, next_id, calls_requested >>
    /\ UNCHANGED << queries, show_steps, final_state, step_count >>
    /\ UNCHANGED fixed_vars

\* AppendNew taking two messages of the same class and content for equal
RECURSIVE AppendNew_by_content(_, _)
AppendNew_by_content(conversation, msgs) ==
    IF msgs = << >> THEN conversation
    ELSE LET msg == Head(msgs)
         IN  AppendNew_by_content(
                 IF \E i \in 1..Len(conversation) :
                        /\ conversation[i].type = msg.type
                        /\ conversation[i].content = msg.content
                 THEN conversation
                 ELSE Append(conversation, msg),
                 Tail(msgs))

\* for msg in msgs: if msg not in conversation: conversation.append(msg)
RECURSIVE AppendNew(_, _)
AppendNew(conversation, msgs) ==
    IF msgs = << >> THEN conversation
    ELSE LET msg == Head(msgs)
         IN  AppendNew(IF \E i \in 1..Len(conversation) : conversation[i] = msg
                       THEN conversation
                       ELSE Append(conversation, msg),
                       Tail(msgs))

\* The body of interactive_mode's loop over app.stream(), for one yielded update.
InteractiveStep ==
    /\ entry = "interactive"
    /\ dpc = "streaming"
    /\ output # None
    /\ conversation_messages' = AppendNew(conversation_messages, output.messages)
    /\ output' = None
    /\ UNCHANGED << dpc, queries, show_steps, stdout, final_state, step_count,
                    run, inputs_read, stdin_line >>
    /\ UNCHANGED << node, messages, model_calls, next_id, calls_requested >>
    /\ UNCHANGED fixed_vars

\* interactive_mode after the stream is exhausted: the reply is printed.
InteractiveFinish ==
    /\ entry = "interactive"
    /\ dpc = "streaming"
    /\ node = "END"
    /\ output = None
    /\ stdout' = stdout \o << Line("Agent", ReportedTurn(conversation_messages).content) >>
    /\ dpc' = "input"
    /\ UNCHANGED << queries, show_steps, final_state, step_count,
                    conversation_messages, run, inputs_read, stdin_line >>
    /\ UNCHANGED graph_vars
    /\ UNCHANGED fixed_vars

Init ==
    /\ InitCommon
    /\ env_key \in {"absent", "empty", "set"}
    /\ entry \in {"main", "run_agent", "interactive"}
    /\ dpc = CASE entry = "main" -> "startup"
               [] entry = "run_agent" -> "main"
               [] entry = "interactive" -> "interactive"
    /\ queries = CASE entry = "main" -> ExampleQueries
                   [] entry = "run_agent" -> QuietQuery
                   [] entry = "interactive" -> << >>
    /\ tool_in = NoCall

Next ==
    \/ Startup
    \/ RunAgentStart
    \/ RunAgentStep
    \/ RunAgentFinish
    \/ MainExit
    \/ InteractiveStart
    \/ ReadInput
    \/ InteractiveStep
    \/ InteractiveFinish
    \/ CallModelRaises
    \/ CallModelAnswers
    \/ CallModelRequestsTools
    \/ ShouldContinue
    \/ ExecuteToolsReturns
    \/ ExecuteToolsRaises

Spec == Init /\ [][Next]_vars

\* The program is sequential: a step that needs no input and no reply of the
\* model service is taken.
FairSpec ==
    /\ Spec
    /\ WF_vars(ShouldContinue)
    /\ WF_vars(ExecuteToolsReturns)
    /\ WF_vars(ExecuteToolsRaises)
    /\ WF_vars(RunAgentStep)
    /\ WF_vars(InteractiveStep)
    /\ WF_vars(RunAgentFinish)
    /\ WF_vars(InteractiveFinish)

\* The tools called directly and the drivers, in one specification.
InitAll == Init \/ InitTools

NextAll == Next \/ NextTools

SpecAll == InitAll /\ [][NextAll]_vars

----------------------------------------------------------------------------
(* Properties of the tools, checked under SpecTools. *)

\* The call has returned (or raised) and was a call of tool_name.
Called(tool_name) == dpc = "returned" /\ tool_in.name = tool_name

WaiverReasons == {defective, wrong_item, damaged}

\* C1: for every order of the store, calculate_refund waives the restocking
\* fee (restocking_fee = 0, refund_amount = price) when the lower-cased
\* return_reason is defective, wrong_item or damaged, and applies the fixed
\* fee of 100 (refund_amount = price - fee) for every other reason, the
\* default "general" included.
C1_FeeWaivedExactlyForWaiverReasons ==
    (/\ Called("calculate_refund")
     /\ ~tool_out.raised
     /\ tool_out.value.success)
    => LET reason == Arg(tool_in.args, "return_reason", general).v
           r      == tool_out.value
       IN  IF lower(reason) \in WaiverReasons
           THEN r.restocking_fee = 0 /\ r.refund_amount = r.original_price
           ELSE /\ r.restocking_fee = FixedFee * 100
                /\ r.refund_amount = r.original_price - FixedFee * 100

\* The order ids of the store that equal id ignoring letter case.
SameIgnoringCase(id) == {k \in DOMAIN purchases : lower(k) = lower(id)}

\* C5: lookup_order returns success with exactly the stored record for an
\* identifier that equals a known order id ignoring letter case, and
\* success = false with a message containing the identifier as supplied for
\* an identifier that matches no order.
C5_LookupOrder ==
    (/\ Called("lookup_order")
     /\ "order_id" \in DOMAIN tool_in.args
     /\ tool_in.args["order_id"].t = "str")
    => LET id == tool_in.args["order_id"].v
       IN  /\ ~tool_out.raised
           /\ IF SameIgnoringCase(id) # {}
              THEN \E k \in SameIgnoringCase(id) :
                       tool_out.value = [success |-> TRUE, order |-> purchases[k]]
              ELSE /\ tool_out.value.success = FALSE
                   /\ Contains(tool_out.value.message, id)

\* C5 witness: a known id given in lower case is found.
C5_Witness ==
    /\ Called("lookup_order")
    /\ "order_id" \in DOMAIN tool_in.args
    /\ tool_in.args["order_id"] = PyStr(<< "o","r","d","-","0","0","1" >>)
    /\ ~tool_out.raised
    /\ tool_out.value.success

\* The policy record product_return_policy is to return for a table key.
PolicyRecord(key) ==
    [return_window_days |-> policies[key].return_window_days,
     condition_required |-> policies[key].condition,
     refund_type        |-> policies[key].refund_type,
     restocking_fee     |-> "No restocking fee for defective items"]

\* C6: product_return_policy maps every category string to a policy record
\* and never raises: electronics or accessories in any letter case yield
\* that category's policy, every other string the default policy.
C6_PolicyTotal ==
    (/\ Called("product_return_policy")
     /\ Arg(tool_in.args, "product_category", electronics).t = "str")
    => LET category == Arg(tool_in.args, "product_category", electronics).v
       IN  /\ ~tool_out.raised
           /\ tool_out.value =
                 IF lower(category) = electronics THEN PolicyRecord(electronics)
                 ELSE IF lower(category) = accessories THEN PolicyRecord(accessories)
                 ELSE PolicyRecord(default)

\* C6 witness: an unrecognised category got the default policy.
C6_Witness ==
    /\ Called("product_return_policy")
    /\ "product_category" \in DOMAIN tool_in.args
    /\ tool_in.args["product_category"] = PyStr(<< "b","o","o","k","s" >>)
    /\ ~tool_out.raised
    /\ tool_out.value.return_window_days = policies[default].return_window_days

----------------------------------------------------------------------------
(* Properties of the loop and the drivers, checked under Spec and FairSpec. *)

\* The step is one execution of the "tools" node.
ToolsStep == node = "tools" /\ node' # "tools"

\* The calls the "tools" node is to execute.
PendingCalls == Last(messages).tool_calls

\* C2: one execute_tools step appends exactly N tool-result turns for the N
\* tool calls of the request, the i-th carrying the id and the tool name of
\* the i-th call, whichever calls succeed or fail.
C2_OneResultPerCall ==
    [][ToolsStep =>
           /\ Len(messages') = Len(messages) + Len(PendingCalls)
           /\ SubSeq(messages', 1, Len(messages)) = messages
           /\ \A i \in 1..Len(PendingCalls) :
                  /\ messages'[Len(messages) + i].type = "tool"
                  /\ messages'[Len(messages) + i].tool_call_id = PendingCalls[i].id
                  /\ messages'[Len(messages) + i].name = PendingCalls[i].name]_vars

\* C3: a call naming an unregistered tool gets a result message of its own,
\* the other calls of the batch are executed and the loop goes on to the
\* next model invocation.
C3_UnregisteredToolGetsResult ==
    [][(ToolsStep /\ \E i \in 1..Len(PendingCalls) : PendingCalls[i].name \notin TOOLS) =>
           /\ node' = "agent"
           /\ dpc' # "crashed"
           /\ Len(messages') = Len(messages) + Len(PendingCalls)
           /\ \A i \in 1..Len(PendingCalls) :
                  /\ messages'[Len(messages) + i].type = "tool"
                  /\ messages'[Len(messages) + i].tool_call_id = PendingCalls[i].id]_vars

\* C10: when a registered tool raises, its call gets the result
\* "Error executing <tool_name>: <error detail>" with the call's id, and the
\* later calls of the batch are executed too.
C10_ExecutionErrorCaptured ==
    [][ToolsStep =>
           \A i \in 1..Len(PendingCalls) :
               (/\ PendingCalls[i].name \in TOOLS
                /\ Invoke(PendingCalls[i].name, PendingCalls[i].args).raised)
               => /\ Len(messages') = Len(messages) + Len(PendingCalls)
                  /\ messages'[Len(messages) + i] =
                         ToolMessage(<< "Error executing ", PendingCalls[i].name, ": ",
                                        Invoke(PendingCalls[i].name,
                                               PendingCalls[i].args).value >>,
                                     PendingCalls[i].id, PendingCalls[i].name)]_vars

\* The model has returned a plain answer and the branch is not yet taken.
ModelAnswered == node = "should_continue" /\ ~HasToolCalls(Last(messages))

\* C4: once the model returns a plain answer the loop reaches END, and in
\* END nothing more happens in that run: no model invocation, no tool
\* execution, no new turn.
C4_ReachesDoneAndStays ==
    /\ ModelAnswered ~> (node = "END")
    /\ [][(node = "END" /\ run' = run) =>
              /\ node' = "END"
              /\ messages' = messages
              /\ model_calls' = model_calls]_vars

\* C4 witness: a run that executed tools has ended and been reported.
C4_Witness ==
    /\ node = "END"
    /\ dpc = "main"
    /\ Len(messages) >= 4

\* The (turn, call) pairs before position p of a sequence whose call has the id.
CallsWithId(seq, p, id) ==
    {qj \in UNION {{<< q, j >> : j \in 1..Len(seq[q].tool_calls)} : q \in 1..(p - 1)} :
        seq[qj[1]].tool_calls[qj[2]].id = id}

\* The turn right before the block of tool results that holds position p.
BlockHead(seq, p) ==
    LET before == {q \in 1..(p - 1) : seq[q].type # "tool"}
    IN  IF before = {} THEN 0 ELSE CHOOSE q \in before : \A r \in before : r <= q

ResultsMatchRequest(seq) ==
    \A p \in 1..Len(seq) :
        seq[p].type = "tool" =>
            /\ Cardinality(CallsWithId(seq, p, seq[p].tool_call_id)) = 1
            /\ BlockHead(seq, p) # 0
            /\ \A qj \in CallsWithId(seq, p, seq[p].tool_call_id) :
                   qj[1] = BlockHead(seq, p)

\* C7: every tool-result turn matches, by call id, exactly one earlier tool
\* call, and that call is in the model turn right before the block of
\* results; this holds of the run's sequence and of the session history.
C7_ResultsMatchRequest ==
    /\ ResultsMatchRequest(messages)
    /\ ResultsMatchRequest(conversation_messages)

\* C7 witness: a second batch of results follows a second request.
C7_Witness ==
    /\ Len(messages) >= 5
    /\ Last(messages).type = "tool"
    /\ \E p \in 1..(Len(messages) - 2) : messages[p].type = "tool"

\* C8: in interactive mode a run starts from the history plus the new user
\* message, each update of the run is appended to the history whole and in
\* order, and when the run ends the history is the run's whole sequence.
C8_HistoryThreaded ==
    [][entry = "interactive" =>
           /\ (dpc = "input" /\ dpc' = "streaming") =>
                  /\ \E line \in UserInputs :
                         conversation_messages' =
                             Append(conversation_messages, HumanMessage(strip(line)))
                  /\ messages' = conversation_messages'
           /\ (dpc = "streaming" /\ output # None /\ output' = None) =>
                  conversation_messages' = conversation_messages \o output.messages
           /\ (dpc = "streaming" /\ dpc' = "input") =>
                  /\ conversation_messages' = conversation_messages
                  /\ conversation_messages = messages]_vars

\* C8 witness: a second run of the session has ended, after tool results.
C8_Witness ==
    /\ entry = "interactive"
    /\ dpc = "input"
    /\ run = 2
    /\ \E p \in 1..Len(conversation_messages) : conversation_messages[p].type = "tool"
    /\ Last(conversation_messages).type = "ai"

\* C9: with the API key absent the program prints the warning and goes on
\* to its first run; it does not fail before that run is attempted.
C9_WarnsAndProceeds ==
    (entry = "main" /\ env_key = "absent" /\ dpc # "startup")
    => /\ stdout # << >>
       /\ Head(stdout) = Line("key not found", << >>)
       /\ run >= 1

\* C11: a run starts at the model; after a model turn the loop goes to the
\* tools exactly when the turn carries a tool call, and ends otherwise;
\* after every tool-execution step it goes back to the model; the tools
\* node runs only when the last turn is a model turn with tool calls.
C11_StrictAlternation ==
    /\ [](node = "tools" => HasToolCalls(Last(messages)))
    /\ [][/\ (run' # run) => node' = "agent"
          /\ (node = "should_continue" /\ node' # node) =>
                 node' = IF HasToolCalls(Last(messages)) THEN "tools" ELSE "END"
          /\ ToolsStep => node' = "agent"
          /\ (node' = "tools" /\ node # "tools") => node = "should_continue"]_vars

\* C12: within a run every step leaves the turns it found in place; a model
\* step adds exactly one turn, a model turn; a tool-execution step adds only
\* tool-result turns; no other step adds a turn.
C12_AppendOnly ==
    [][(run' = run) =>
           /\ Len(messages') >= Len(messages)
           /\ SubSeq(messages', 1, Len(messages)) = messages
           /\ (node = "agent" /\ node' = "should_continue") =>
                  /\ Len(messages') = Len(messages) + 1
                  /\ Last(messages').type = "ai"
           /\ ToolsStep =>
                  \A i \in (Len(messages) + 1)..Len(messages') : messages'[i].type = "tool"
           /\ (messages' # messages) => node \in {"agent", "tools"}]_vars

\* C12 witness: a tool step has added two results to the turns before it.
C12_Witness ==
    /\ node = "agent"
    /\ Len(messages) >= 4
    /\ Last(messages).type = "tool"
    /\ messages[Len(messages) - 1].type = "tool"

\* C13: the order table is read-only after startup: no tool call, whatever
\* its arguments and outcome, and no step of the loop or of a driver changes
\* the set of orders or a field of an order.
C13_OrderStoreReadOnly == purchases = MOCK_PURCHASES

\* C13 witness: calculate_refund has computed a refund with a fee for an order.
C13_Witness ==
    /\ Called("calculate_refund")
    /\ ~tool_out.raised
    /\ tool_out.value.success
    /\ tool_out.value.restocking_fee > 0

\* C14: when a run reaches END the last turn is a model turn without tool
\* calls, and its text is what is printed as the answer: by run_agent with
\* show_steps off, and by interactive_mode after each run.
C14_AnswerIsLastTurn ==
    /\ [](node = "END" =>
             /\ messages[Len(messages)].type = "ai"
             /\ messages[Len(messages)].tool_calls = << >>)
    /\ [][/\ (dpc = "streaming" /\ dpc' = "main" /\ ~show_steps) =>
                 /\ node = "END"
                 /\ stdout' = stdout \o << Line("final", messages[Len(messages)].content),
                                           Line("=", << >>) >>
          /\ (dpc = "streaming" /\ dpc' = "input") =>
                 /\ node = "END"
                 /\ stdout' = Append(stdout,
                                     Line("Agent", messages[Len(messages)].content))]_vars

\* C14 witness: the second run of a session has ended after a tool round
\* and its answer, another text than the first run's, has been printed.
C14_Witness ==
    /\ entry = "interactive"
    /\ dpc = "input"
    /\ run = 2
    /\ node = "END"
    /\ \E p \in 1..Len(messages) :
           /\ messages[p].type = "ai"
           /\ messages[p].tool_calls = << >>
           /\ messages[p].content # messages[Len(messages)].content
    /\ stdout[Len(stdout)] = Line("Agent", messages[Len(messages)].content)

\* The line holds nothing but blanks.
IsBlankLine(l) == \A i \in 1..Len(l) : l[i] = " "

\* The line is the word, in any letter case, with only blanks around it.
IsWordLine(l, word) ==
    \E i, j \in 1..Len(l) :
        /\ lower(SubSeq(l, i, j)) = word
        /\ \A k \in 1..Len(l) : (k < i \/ k > j) => l[k] = " "

IsQuitLine(l) == \E word \in QuitWords : IsWordLine(l, word)

\* C15: in interactive mode a run starts only when a line is read, one run
\* per line, and a line is read only when the run before it has ended; a
\* line that trims to nothing starts no run and adds no turn; quit, exit or
\* q in any letter case ends the session without a run.
C15_OneRunPerMessage ==
    [][entry = "interactive" =>
           /\ (run' # run) =>
                  /\ inputs_read' = inputs_read + 1
                  /\ run' = run + 1
           /\ (inputs_read' # inputs_read) =>
                  /\ dpc = "input"
                  /\ node \in {"idle", "END"}
                  /\ output = None
                  /\ IF IsQuitLine(stdin_line')
                     THEN /\ dpc' = "exited"
                          /\ run' = run
                          /\ conversation_messages' = conversation_messages
                     ELSE IF IsBlankLine(stdin_line')
                     THEN /\ dpc' = "input"
                          /\ run' = run
                          /\ conversation_messages' = conversation_messages
                          /\ messages' = messages
                     ELSE /\ dpc' = "streaming"
                          /\ run' = run + 1
                          /\ node' = "agent"]_vars

\* C15 witness: after one run, EXIT typed between blanks has ended the session.
C15_Witness ==
    /\ entry = "interactive"
    /\ dpc = "exited"
    /\ run = 1
    /\ node = "END"
    /\ stdin_line = << " ","E","X","I","T"," " >>

\* The turns of the current run: those after the last user message.
RunTurns == {i \in 1..Len(messages) :
                 \A j \in i..Len(messages) : messages[j].type # "human"}

\* Every model turn of the current run so far requests a tool call.
EveryTurnRequestsTools ==
    \A i \in RunTurns : messages[i].type = "ai" => messages[i].tool_calls # << >>

\* C16: no bound on iterations. As long as every model turn of the run
\* requests a tool call, whatever their number, the loop goes from the
\* model turn to tool execution and from tool execution back to the model,
\* and END is not reached.
C16_NoIterationBound ==
    /\ [](node = "END" => ~EveryTurnRequestsTools)
    /\ [][(/\ node \in {"should_continue", "tools"}
           /\ EveryTurnRequestsTools
           /\ node' # node)
          => node' = IF node = "should_continue" THEN "tools" ELSE "agent"]_vars

\* C17: a successful calculate_refund result has refund_amount =
\* original_price - restocking_fee, a restocking_fee of nothing or the fixed
\* fee, and a refund_amount from 0 up to original_price (amounts in cents).
C17_RefundWithinPrice ==
    (Called("calculate_refund") /\ ~tool_out.raised /\ tool_out.value.success) =>
        /\ tool_out.value.refund_amount =
               tool_out.value.original_price - tool_out.value.restocking_fee
        /\ tool_out.value.restocking_fee \in {0, FixedFee * 100}
        /\ 0 <= tool_out.value.refund_amount
        /\ tool_out.value.refund_amount <= tool_out.value.original_price

====
